---- MODULE Spec2Model ----
(***************************************************************************)
(* pico-timer (src/src/main.rs): a Raspberry Pi Pico program in which the  *)
(* TIMER_IRQ_0 handler acknowledges and rearms hardware alarm 0, toggles   *)
(* the LED and increments INTERRUPT_COUNTER, while main() polls the        *)
(* counter and logs every change it sees.                                  *)
(*                                                                         *)
(* Two execution contexts share one core: main() and the handler, which    *)
(* preempts main() and runs to completion before main() continues.  The    *)
(* RP2040 timer, the NVIC and PRIMASK are modelled by what the calls of    *)
(* main.rs do to them.  The HAL calls that return a Result (schedule,      *)
(* toggle) return Ok or Err nondeterministically; unwrap() of Err panics   *)
(* and panic_probe halts the core.                                         *)
(***************************************************************************)
EXTENDS Integers, Sequences, FiniteSets, TLC

----------------------------------------------------------------------------
(* Bounds of the model *)

\* Width in bits of the modelled INTERRUPT_COUNTER (u32 in main.rs:48, scaled
\* down so that the overflow boundary is inside the explored state space).
CounterBits == 2
\* Completed-or-started handler executions explored while observing.
MaxFirings == 5
\* Length in microseconds of one step of the modelled hardware timer.
TickUs == 250
\* Timer steps that can elapse while one handler execution is running.
MaxHandlerLatency == 1
\* Timer steps explored between an expiry of the alarm and its rearming.
MaxRearmDelay == 2

----------------------------------------------------------------------------
(* Program constants and pure functions *)

\* const ALARM0_INTERVAL_MS: u32 = 1000;
ALARM0_INTERVAL_MS == 1000

\* fugit::ExtU32: n.micros() is a duration of n ticks of 1/1_000_000 s.
micros(n) == [ticks |-> n, per_second |-> 1000000]
\* fugit::ExtU32: n.millis() is a duration of n ticks of 1/1_000 s.
millis(n) == [ticks |-> n, per_second |-> 1000]
\* Length of a duration in microseconds.
ToMicros(d) == d.ticks * (1000000 \div d.per_second)
\* Timer steps the alarm needs to count a duration down (rounded up).
ToTicks(d) == (ToMicros(d) + TickUs - 1) \div TickUs

\* The duration both schedule() calls pass: ALARM0_INTERVAL_MS.micros()
ScheduleArg == micros(ALARM0_INTERVAL_MS)

CounterModulus == 2 ^ CounterBits
CounterValues == 0 .. (CounterModulus - 1)

\* u32::wrapping_add at the modelled width.
SaturatingAdd(x, y) == IF x + y >= CounterModulus THEN CounterModulus - 1 ELSE x + y
WrappingAdd(x, y) == (x + y) % CounterModulus

\* StatefulOutputPin::toggle on the pin level.
SetHigh(level) == TRUE
Toggle(level) == ~level

\* Result::unwrap: panics exactly on Err.
IgnoreResult(result) == FALSE
UnwrapPanics(result) == result = "Err"

Results == {"Ok", "Err"}

\* Level of GPIO25 after into_push_pull_output(): the output register's reset value.
LedInitialLevel == FALSE

----------------------------------------------------------------------------
VARIABLES
    \* statics of main.rs
    ALARM0,             \* "None" | "Some": Mutex<RefCell<Option<Alarm0>>>
    LED,                \* "None" | "Some": Mutex<RefCell<Option<Pin>>>
    borrowed,           \* the RefCells among {"ALARM0","LED"} with a live RefMut
    INTERRUPT_COUNTER,  \* Mutex<Cell<u32>>
    \* main()
    pcMain, counter_old, interrupt_count,
    \* TIMER_IRQ_0()
    pcIrq, counter, irqTicks,
    \* core
    primask,            \* TRUE: interrupts disabled (cpsid i)
    savedPrimask,       \* what free() read from PRIMASK on entry
    nvicEnabled,        \* TIMER_IRQ_0 unmasked in the NVIC
    halted,             \* the core sits in the panic handler
    \* alarm 0 of the timer and the LED pin
    inte, intr, armed, remaining, countdownUs, ledLevel,
    \* observation of the run (history)
    observe, firings, toggles, acks, schedules, reports, firstRead, failed,
    timed,              \* whether the timing history below is kept
    sinceExpiry,        \* timer steps since alarm 0 last expired (-1: never)
    rearmLatency,       \* sinceExpiry when the handler last rearmed (-1: never)
    lastGap             \* timer steps between the last two expiries (0: none yet)

progVars == <<ALARM0, LED, borrowed, INTERRUPT_COUNTER, pcMain, counter_old,
              interrupt_count, pcIrq, counter, irqTicks, primask, savedPrimask,
              nvicEnabled, halted>>
hwVars == <<inte, intr, armed, remaining, countdownUs, ledLevel>>
gapVars == <<sinceExpiry, rearmLatency, lastGap>>
histVars == <<observe, firings, toggles, acks, schedules, reports, firstRead, failed,
              timed, gapVars>>
vars == <<progVars, hwVars, histVars>>

\* History is kept only in observing runs, so that the runs without it are
\* finite-state however long the program runs.
Bump(n) == IF observe THEN n + 1 ELSE n
Record(log, e) == IF observe THEN Append(log, e) ELSE log

----------------------------------------------------------------------------
(* Initial state: the statics as initialised at lines 43-48, main() at its
   first critical section, the alarm idle, TIMER_IRQ_0 masked (reset state). *)

InitCommon ==
    /\ ALARM0 = "None"
    /\ LED = "None"
    /\ borrowed = {}
    /\ INTERRUPT_COUNTER = 0
    /\ pcMain = "free_init"
    /\ counter_old = 0
    /\ interrupt_count = 0
    /\ pcIrq = "idle"
    /\ counter = 0
    /\ irqTicks = 0
    /\ primask = FALSE
    /\ savedPrimask = FALSE
    /\ nvicEnabled = FALSE
    /\ halted = FALSE
    /\ inte = FALSE
    /\ intr = FALSE
    /\ armed = FALSE
    /\ remaining = 0
    /\ countdownUs = 0
    /\ ledLevel = LedInitialLevel
    /\ firings = 0
    /\ toggles = 0
    /\ acks = 0
    /\ schedules = 0
    /\ reports = <<>>
    /\ firstRead = 0
    /\ failed = FALSE
    /\ sinceExpiry = -1
    /\ rearmLatency = -1
    /\ lastGap = 0

Init == InitCommon /\ observe = TRUE /\ timed = FALSE

LiveInit == InitCommon /\ observe = FALSE /\ timed = FALSE

\* The same program with the timing history kept.
TimedInit == InitCommon /\ observe = TRUE /\ timed = TRUE

----------------------------------------------------------------------------
(* Hardware and library operations used by both contexts *)

\* The NVIC hands TIMER_IRQ_0 to the core: alarm 0 has fired (intr) with its
\* interrupt enabled (inte), the line is unmasked and PRIMASK is clear.
IrqDeliverable == intr /\ inte /\ nvicEnabled /\ ~primask

\* cortex_m::interrupt::free, entry: read PRIMASK, then cpsid i.
FreeEnterNoDisable(from, to) ==
    /\ pcMain = from
    /\ pcMain' = to
    /\ savedPrimask' = primask
    /\ primask' = primask
FreeEnter(from, to) ==
    /\ pcMain = from
    /\ pcMain' = to
    /\ savedPrimask' = primask
    /\ primask' = TRUE

\* cortex_m::interrupt::free, exit: cpsie i if interrupts were active on entry.
FreeExitNoRestore(from, to) ==
    /\ pcMain = from
    /\ pcMain' = to
    /\ UNCHANGED <<primask, savedPrimask>>
FreeExit(from, to) ==
    /\ pcMain = from
    /\ pcMain' = to
    /\ primask' = (IF savedPrimask THEN primask ELSE FALSE)
    /\ UNCHANGED savedPrimask

\* Alarm::clear_interrupt: clears the latched interrupt of alarm 0.
HalClearInterrupt ==
    /\ intr' = FALSE
    /\ acks' = Bump(acks)

\* Alarm::schedule(d).unwrap() with result r: Ok arms the alarm d from now;
\* Err leaves the alarm alone and unwrap() panics.
HalScheduleUnwrap(d, r) ==
    /\ schedules' = Bump(schedules)
    /\ failed' = (failed \/ r = "Err")
    /\ halted' = UnwrapPanics(r)
    /\ IF r = "Ok"
       THEN /\ armed' = TRUE
            /\ remaining' = ToTicks(d)
            /\ countdownUs' = ToMicros(d)
       ELSE UNCHANGED <<armed, remaining, countdownUs>>

\* The core executes main() only while no handler is active and it has not halted.
MainRuns == pcIrq = "idle" /\ ~halted
\* The core executes the handler body.
IrqRuns == pcIrq # "idle" /\ ~halted

----------------------------------------------------------------------------
(* main(), lines 134-173 *)

\* 134: free(|cs| { ...
MainFreeInitEnter ==
    /\ MainRuns
    /\ FreeEnter("free_init", "enable_interrupt")
    /\ UNCHANGED <<ALARM0, LED, borrowed, INTERRUPT_COUNTER, counter_old, interrupt_count,
                   pcIrq, counter, irqTicks, nvicEnabled, halted, hwVars, histVars>>

\* 135: alarm0.enable_interrupt();
MainEnableInterrupt ==
    /\ MainRuns
    /\ pcMain = "enable_interrupt"
    /\ pcMain' = "clear_interrupt"
    /\ inte' = TRUE
    /\ UNCHANGED <<ALARM0, LED, borrowed, INTERRUPT_COUNTER, counter_old, interrupt_count,
                   pcIrq, counter, irqTicks, primask, savedPrimask, nvicEnabled, halted,
                   intr, armed, remaining, countdownUs, ledLevel, histVars>>

\* 136: alarm0.clear_interrupt();
MainClearInterrupt ==
    /\ MainRuns
    /\ pcMain = "clear_interrupt"
    /\ pcMain' = "schedule"
    /\ HalClearInterrupt
    /\ UNCHANGED <<ALARM0, LED, borrowed, INTERRUPT_COUNTER, counter_old, interrupt_count,
                   pcIrq, counter, irqTicks, primask, savedPrimask, nvicEnabled, halted,
                   inte, armed, remaining, countdownUs, ledLevel,
                   observe, timed, gapVars, firings, toggles, schedules, reports, firstRead, failed>>

\* 137: alarm0.schedule(ALARM0_INTERVAL_MS.micros()).unwrap();
MainSchedule ==
    /\ MainRuns
    /\ pcMain = "schedule"
    /\ \E r \in Results :
          /\ HalScheduleUnwrap(ScheduleArg, r)
          /\ pcMain' = (IF UnwrapPanics(r) THEN pcMain ELSE "put_alarm0")
    /\ UNCHANGED <<ALARM0, LED, borrowed, INTERRUPT_COUNTER, counter_old, interrupt_count,
                   pcIrq, counter, irqTicks, primask, savedPrimask, nvicEnabled,
                   inte, intr, ledLevel,
                   observe, timed, gapVars, firings, toggles, acks, reports, firstRead>>

\* 140: ALARM0.borrow(cs).replace(Some(alarm0));
MainPutAlarm0Dropped ==
    /\ MainRuns
    /\ pcMain = "put_alarm0"
    /\ pcMain' = "put_led"
    /\ UNCHANGED <<ALARM0, LED, borrowed, INTERRUPT_COUNTER, counter_old, interrupt_count,
                   pcIrq, counter, irqTicks, primask, savedPrimask, nvicEnabled, halted,
                   hwVars, histVars>>
MainPutAlarm0 ==
    /\ MainRuns
    /\ pcMain = "put_alarm0"
    /\ pcMain' = "put_led"
    /\ ALARM0' = "Some"
    /\ UNCHANGED <<LED, borrowed, INTERRUPT_COUNTER, counter_old, interrupt_count,
                   pcIrq, counter, irqTicks, primask, savedPrimask, nvicEnabled, halted,
                   hwVars, histVars>>

\* 141: LED.borrow(cs).replace(Some(led_pin));
MainPutLedKeepBorrow ==
    /\ MainRuns
    /\ pcMain = "put_led"
    /\ pcMain' = "free_init_exit"
    /\ LED' = "Some"
    /\ borrowed' = borrowed \cup {"LED"}
    /\ UNCHANGED <<ALARM0, INTERRUPT_COUNTER, counter_old, interrupt_count,
                   pcIrq, counter, irqTicks, primask, savedPrimask, nvicEnabled, halted,
                   hwVars, histVars>>
MainPutLed ==
    /\ MainRuns
    /\ pcMain = "put_led"
    /\ pcMain' = "free_init_exit"
    /\ LED' = "Some"
    /\ UNCHANGED <<ALARM0, borrowed, INTERRUPT_COUNTER, counter_old, interrupt_count,
                   pcIrq, counter, irqTicks, primask, savedPrimask, nvicEnabled, halted,
                   hwVars, histVars>>

\* 142: });
MainFreeInitExit ==
    /\ MainRuns
    /\ FreeExit("free_init_exit", "program_start")
    /\ UNCHANGED <<ALARM0, LED, borrowed, INTERRUPT_COUNTER, counter_old, interrupt_count,
                   pcIrq, counter, irqTicks, nvicEnabled, halted, hwVars, histVars>>

\* 144: info!("Program start");
MainProgramStart ==
    /\ MainRuns
    /\ pcMain = "program_start"
    /\ pcMain' = "unmask"
    /\ UNCHANGED <<ALARM0, LED, borrowed, INTERRUPT_COUNTER, counter_old, interrupt_count,
                   pcIrq, counter, irqTicks, primask, savedPrimask, nvicEnabled, halted,
                   hwVars, histVars>>

\* 146-148: unsafe { pac::NVIC::unmask(pac::Interrupt::TIMER_IRQ_0); }
MainUnmask ==
    /\ MainRuns
    /\ pcMain = "unmask"
    /\ pcMain' = "read0_enter"
    /\ nvicEnabled' = TRUE
    /\ UNCHANGED <<ALARM0, LED, borrowed, INTERRUPT_COUNTER, counter_old, interrupt_count,
                   pcIrq, counter, irqTicks, primask, savedPrimask, halted,
                   hwVars, histVars>>

\* 153: let mut counter_old = get_interrupt_count();   (free entry)
MainRead0Enter ==
    /\ MainRuns
    /\ FreeEnter("read0_enter", "read0_get")
    /\ UNCHANGED <<ALARM0, LED, borrowed, INTERRUPT_COUNTER, counter_old, interrupt_count,
                   pcIrq, counter, irqTicks, nvicEnabled, halted, hwVars, histVars>>

\* 152-153: INTERRUPT_COUNTER.borrow(cs).get() into counter_old
MainRead0Get ==
    /\ MainRuns
    /\ pcMain = "read0_get"
    /\ pcMain' = "read0_exit"
    /\ counter_old' = INTERRUPT_COUNTER
    /\ firstRead' = INTERRUPT_COUNTER
    /\ UNCHANGED <<ALARM0, LED, borrowed, INTERRUPT_COUNTER, interrupt_count,
                   pcIrq, counter, irqTicks, primask, savedPrimask, nvicEnabled, halted,
                   hwVars, observe, timed, gapVars, firings, toggles, acks, schedules, reports, failed>>

\* 153: free exit
MainRead0Exit ==
    /\ MainRuns
    /\ FreeExit("read0_exit", "read_enter")
    /\ UNCHANGED <<ALARM0, LED, borrowed, INTERRUPT_COUNTER, counter_old, interrupt_count,
                   pcIrq, counter, irqTicks, nvicEnabled, halted, hwVars, histVars>>

\* 155: let interrupt_count = get_interrupt_count();   (free entry)
MainReadEnter ==
    /\ MainRuns
    /\ FreeEnter("read_enter", "read_get")
    /\ UNCHANGED <<ALARM0, LED, borrowed, INTERRUPT_COUNTER, counter_old, interrupt_count,
                   pcIrq, counter, irqTicks, nvicEnabled, halted, hwVars, histVars>>

\* 152, 155: INTERRUPT_COUNTER.borrow(cs).get() into interrupt_count
MainReadGetTake ==
    /\ MainRuns
    /\ pcMain = "read_get"
    /\ pcMain' = "read_exit"
    /\ interrupt_count' = INTERRUPT_COUNTER
    /\ INTERRUPT_COUNTER' = 0
    /\ UNCHANGED <<ALARM0, LED, borrowed, counter_old,
                   pcIrq, counter, irqTicks, primask, savedPrimask, nvicEnabled, halted,
                   hwVars, histVars>>
MainReadGet ==
    /\ MainRuns
    /\ pcMain = "read_get"
    /\ pcMain' = "read_exit"
    /\ interrupt_count' = INTERRUPT_COUNTER
    /\ UNCHANGED <<ALARM0, LED, borrowed, INTERRUPT_COUNTER, counter_old,
                   pcIrq, counter, irqTicks, primask, savedPrimask, nvicEnabled, halted,
                   hwVars, histVars>>

\* 155: free exit
MainReadExitKeepDisabled ==
    /\ MainRuns
    /\ pcMain = "read_exit"
    /\ pcMain' = "compare"
    /\ UNCHANGED <<ALARM0, LED, borrowed, INTERRUPT_COUNTER, counter_old, interrupt_count,
                   pcIrq, counter, irqTicks, primask, savedPrimask, nvicEnabled, halted,
                   hwVars, histVars>>
MainReadExit ==
    /\ MainRuns
    /\ FreeExit("read_exit", "compare")
    /\ UNCHANGED <<ALARM0, LED, borrowed, INTERRUPT_COUNTER, counter_old, interrupt_count,
                   pcIrq, counter, irqTicks, nvicEnabled, halted, hwVars, histVars>>

\* 156: if counter_old != interrupt_count {
MainCompareLess ==
    /\ MainRuns
    /\ pcMain = "compare"
    /\ pcMain' = (IF counter_old < interrupt_count THEN "report" ELSE "read_enter")
    /\ UNCHANGED <<ALARM0, LED, borrowed, INTERRUPT_COUNTER, counter_old, interrupt_count,
                   pcIrq, counter, irqTicks, primask, savedPrimask, nvicEnabled, halted,
                   hwVars, histVars>>
MainCompareAlways ==
    /\ MainRuns
    /\ pcMain = "compare"
    /\ pcMain' = "report"
    /\ UNCHANGED <<ALARM0, LED, borrowed, INTERRUPT_COUNTER, counter_old, interrupt_count,
                   pcIrq, counter, irqTicks, primask, savedPrimask, nvicEnabled, halted,
                   hwVars, histVars>>
MainCompare ==
    /\ MainRuns
    /\ pcMain = "compare"
    /\ pcMain' = (IF counter_old # interrupt_count THEN "report" ELSE "read_enter")
    /\ UNCHANGED <<ALARM0, LED, borrowed, INTERRUPT_COUNTER, counter_old, interrupt_count,
                   pcIrq, counter, irqTicks, primask, savedPrimask, nvicEnabled, halted,
                   hwVars, histVars>>

\* 167-170: info!("interrupt count incremented! {} - {}", counter_old, interrupt_count);
MainReportSwapped ==
    /\ MainRuns
    /\ pcMain = "report"
    /\ pcMain' = "assign"
    /\ reports' = Record(reports, <<interrupt_count, counter_old>>)
    /\ UNCHANGED <<ALARM0, LED, borrowed, INTERRUPT_COUNTER, counter_old, interrupt_count,
                   pcIrq, counter, irqTicks, primask, savedPrimask, nvicEnabled, halted,
                   hwVars, observe, timed, gapVars, firings, toggles, acks, schedules, firstRead, failed>>
MainReport ==
    /\ MainRuns
    /\ pcMain = "report"
    /\ pcMain' = "assign"
    /\ reports' = Record(reports, <<counter_old, interrupt_count>>)
    /\ UNCHANGED <<ALARM0, LED, borrowed, INTERRUPT_COUNTER, counter_old, interrupt_count,
                   pcIrq, counter, irqTicks, primask, savedPrimask, nvicEnabled, halted,
                   hwVars, observe, timed, gapVars, firings, toggles, acks, schedules, firstRead, failed>>

\* 171: counter_old = interrupt_count;
MainAssignSkipped ==
    /\ MainRuns
    /\ pcMain = "assign"
    /\ pcMain' = "read_enter"
    /\ UNCHANGED <<ALARM0, LED, borrowed, INTERRUPT_COUNTER, counter_old, interrupt_count,
                   pcIrq, counter, irqTicks, primask, savedPrimask, nvicEnabled, halted,
                   hwVars, histVars>>
MainAssign ==
    /\ MainRuns
    /\ pcMain = "assign"
    /\ pcMain' = "read_enter"
    /\ counter_old' = interrupt_count
    /\ UNCHANGED <<ALARM0, LED, borrowed, INTERRUPT_COUNTER, interrupt_count,
                   pcIrq, counter, irqTicks, primask, savedPrimask, nvicEnabled, halted,
                   hwVars, histVars>>

MainStep ==
    \/ MainFreeInitEnter \/ MainEnableInterrupt \/ MainClearInterrupt \/ MainSchedule
    \/ MainPutAlarm0 \/ MainPutLed \/ MainFreeInitExit \/ MainProgramStart \/ MainUnmask
    \/ MainRead0Enter \/ MainRead0Get \/ MainRead0Exit
    \/ MainReadEnter \/ MainReadGet \/ MainReadExit
    \/ MainCompare \/ MainReport \/ MainAssign

----------------------------------------------------------------------------
(* TIMER_IRQ_0(), lines 180-216 *)

\* Exception entry: the core takes the pending TIMER_IRQ_0 between two
\* instructions of main().  The line cannot preempt itself.
IrqEntry ==
    /\ MainRuns
    /\ IrqDeliverable
    /\ observe => firings < MaxFirings
    /\ pcIrq' = "borrow"
    /\ irqTicks' = 0
    /\ UNCHANGED <<ALARM0, LED, borrowed, INTERRUPT_COUNTER, pcMain, counter_old,
                   interrupt_count, counter, primask, savedPrimask, nvicEnabled, halted,
                   hwVars, histVars>>

\* 187-190: ALARM0.borrow(&cs).borrow_mut(); LED.borrow(&cs).borrow_mut();
\* RefCell::borrow_mut panics when the cell is already borrowed.
IrqBorrow ==
    /\ IrqRuns
    /\ pcIrq = "borrow"
    /\ IF borrowed = {}
       THEN /\ borrowed' = {"ALARM0", "LED"}
            /\ pcIrq' = "get"
            /\ UNCHANGED halted
       ELSE /\ halted' = TRUE
            /\ UNCHANGED <<borrowed, pcIrq>>
    /\ UNCHANGED <<ALARM0, LED, INTERRUPT_COUNTER, pcMain, counter_old, interrupt_count,
                   counter, irqTicks, primask, savedPrimask, nvicEnabled,
                   hwVars, histVars>>

\* 207: let counter = INTERRUPT_COUNTER.borrow(&cs).get();
IrqGet ==
    /\ IrqRuns
    /\ pcIrq = "get"
    /\ pcIrq' = "check"
    /\ counter' = INTERRUPT_COUNTER
    /\ UNCHANGED <<ALARM0, LED, borrowed, INTERRUPT_COUNTER, pcMain, counter_old,
                   interrupt_count, irqTicks, primask, savedPrimask, nvicEnabled, halted,
                   hwVars, histVars>>

\* 208: if let (Some(alarm0), Some(led)) = (alarm0.deref_mut(), led.deref_mut()) {
IrqCheckUnwrap ==
    /\ IrqRuns
    /\ pcIrq = "check"
    /\ IF ALARM0 = "Some" /\ LED = "Some"
       THEN pcIrq' = "clear_interrupt" /\ UNCHANGED halted
       ELSE halted' = TRUE /\ UNCHANGED pcIrq
    /\ UNCHANGED <<ALARM0, LED, borrowed, INTERRUPT_COUNTER, pcMain, counter_old,
                   interrupt_count, counter, irqTicks, primask, savedPrimask, nvicEnabled,
                   hwVars, histVars>>
IrqCheckRearmFirst ==
    /\ IrqRuns
    /\ pcIrq = "check"
    /\ pcIrq' = (IF ALARM0 = "Some" /\ LED = "Some" THEN "schedule" ELSE "set")
    /\ UNCHANGED <<ALARM0, LED, borrowed, INTERRUPT_COUNTER, pcMain, counter_old,
                   interrupt_count, counter, irqTicks, primask, savedPrimask, nvicEnabled,
                   halted, hwVars, histVars>>
IrqCheckTake ==
    /\ IrqRuns
    /\ pcIrq = "check"
    /\ pcIrq' = (IF ALARM0 = "Some" /\ LED = "Some" THEN "clear_interrupt" ELSE "set")
    /\ ALARM0' = "None"
    /\ UNCHANGED <<LED, borrowed, INTERRUPT_COUNTER, pcMain, counter_old,
                   interrupt_count, counter, irqTicks, primask, savedPrimask, nvicEnabled,
                   halted, hwVars, histVars>>
IrqCheck ==
    /\ IrqRuns
    /\ pcIrq = "check"
    /\ pcIrq' = (IF ALARM0 = "Some" /\ LED = "Some" THEN "clear_interrupt" ELSE "set")
    /\ UNCHANGED <<ALARM0, LED, borrowed, INTERRUPT_COUNTER, pcMain, counter_old,
                   interrupt_count, counter, irqTicks, primask, savedPrimask, nvicEnabled,
                   halted, hwVars, histVars>>

\* 209: alarm0.clear_interrupt();
IrqClearInterrupt ==
    /\ IrqRuns
    /\ pcIrq = "clear_interrupt"
    /\ pcIrq' = "schedule"
    /\ HalClearInterrupt
    /\ UNCHANGED <<ALARM0, LED, borrowed, INTERRUPT_COUNTER, pcMain, counter_old,
                   interrupt_count, counter, irqTicks, primask, savedPrimask, nvicEnabled,
                   halted, inte, armed, remaining, countdownUs, ledLevel,
                   observe, timed, gapVars, firings, toggles, schedules, reports, firstRead, failed>>

\* 210: alarm0.schedule(ALARM0_INTERVAL_MS.micros()).unwrap();
IrqScheduleOmitted ==
    /\ IrqRuns
    /\ pcIrq = "schedule"
    /\ pcIrq' = "toggle"
    /\ UNCHANGED <<ALARM0, LED, borrowed, INTERRUPT_COUNTER, pcMain, counter_old,
                   interrupt_count, counter, irqTicks, primask, savedPrimask, nvicEnabled,
                   halted, hwVars, histVars>>
IrqScheduleFromDeadline ==
    /\ IrqRuns
    /\ pcIrq = "schedule"
    /\ \E r \in Results :
          /\ schedules' = Bump(schedules)
          /\ failed' = (failed \/ r = "Err")
          /\ halted' = UnwrapPanics(r)
          /\ pcIrq' = (IF UnwrapPanics(r) THEN pcIrq ELSE "toggle")
          /\ rearmLatency' = (IF timed /\ r = "Ok" THEN sinceExpiry ELSE rearmLatency)
          /\ IF r = "Ok"
             THEN /\ armed' = TRUE
                  /\ remaining' = (IF sinceExpiry > 0 /\ sinceExpiry < ToTicks(ScheduleArg)
                                   THEN ToTicks(ScheduleArg) - sinceExpiry
                                   ELSE ToTicks(ScheduleArg))
                  /\ countdownUs' = ToMicros(ScheduleArg)
             ELSE UNCHANGED <<armed, remaining, countdownUs>>
    /\ UNCHANGED <<ALARM0, LED, borrowed, INTERRUPT_COUNTER, pcMain, counter_old,
                   interrupt_count, counter, irqTicks, primask, savedPrimask, nvicEnabled,
                   inte, intr, ledLevel,
                   observe, timed, sinceExpiry, lastGap, firings, toggles, acks, reports, firstRead>>
IrqSchedule ==
    /\ IrqRuns
    /\ pcIrq = "schedule"
    /\ \E r \in Results :
          /\ HalScheduleUnwrap(ScheduleArg, r)
          /\ pcIrq' = (IF UnwrapPanics(r) THEN pcIrq ELSE "toggle")
          /\ rearmLatency' = (IF timed /\ r = "Ok" THEN sinceExpiry ELSE rearmLatency)
    /\ UNCHANGED <<ALARM0, LED, borrowed, INTERRUPT_COUNTER, pcMain, counter_old,
                   interrupt_count, counter, irqTicks, primask, savedPrimask, nvicEnabled,
                   inte, intr, ledLevel,
                   observe, timed, sinceExpiry, lastGap, firings, toggles, acks, reports, firstRead>>

\* 212: led.toggle().unwrap();
IrqToggle ==
    /\ IrqRuns
    /\ pcIrq = "toggle"
    /\ \E r \in Results :
          /\ failed' = (failed \/ r = "Err")
          /\ halted' = UnwrapPanics(r)
          /\ pcIrq' = (IF UnwrapPanics(r) THEN pcIrq ELSE "set")
          /\ IF r = "Ok"
             THEN ledLevel' = Toggle(ledLevel) /\ toggles' = Bump(toggles)
             ELSE UNCHANGED <<ledLevel, toggles>>
    /\ UNCHANGED <<ALARM0, LED, borrowed, INTERRUPT_COUNTER, pcMain, counter_old,
                   interrupt_count, counter, irqTicks, primask, savedPrimask, nvicEnabled,
                   inte, intr, armed, remaining, countdownUs,
                   observe, timed, gapVars, firings, acks, schedules, reports, firstRead>>

\* 215-216: INTERRUPT_COUNTER.borrow(&cs).set(counter.wrapping_add(1)); the
\* RefMuts are dropped and the handler returns to main().
IrqSet ==
    /\ IrqRuns
    /\ pcIrq = "set"
    /\ INTERRUPT_COUNTER' = WrappingAdd(counter, 1)
    /\ borrowed' = {}
    /\ pcIrq' = "idle"
    /\ firings' = Bump(firings)
    /\ UNCHANGED <<ALARM0, LED, pcMain, counter_old, interrupt_count, counter, irqTicks,
                   primask, savedPrimask, nvicEnabled, halted, hwVars,
                   observe, timed, gapVars, toggles, acks, schedules, reports, firstRead, failed>>

IrqBody ==
    \/ IrqBorrow \/ IrqGet \/ IrqCheck \/ IrqClearInterrupt
    \/ IrqSchedule \/ IrqToggle \/ IrqSet

----------------------------------------------------------------------------
(* The timer *)

\* One step of the free-running timer.  An armed alarm counts down and, on
\* reaching its target, disarms itself and latches its interrupt.  A running
\* handler takes at most MaxHandlerLatency steps of the timer, and an expired
\* alarm is followed for at most MaxRearmDelay steps until it is rearmed.
Tick ==
    /\ IrqRuns => irqTicks < MaxHandlerLatency
    /\ timed => (armed \/ sinceExpiry < MaxRearmDelay)
    /\ irqTicks' = (IF IrqRuns THEN irqTicks + 1 ELSE irqTicks)
    /\ IF armed
       THEN IF remaining > 1
            THEN remaining' = remaining - 1 /\ UNCHANGED <<armed, intr>>
            ELSE remaining' = 0 /\ armed' = FALSE /\ intr' = TRUE
       ELSE UNCHANGED <<armed, intr, remaining>>
    /\ IF ~timed
       THEN UNCHANGED <<sinceExpiry, lastGap>>
       ELSE IF armed /\ remaining <= 1
            THEN /\ sinceExpiry' = 0
                 /\ lastGap' = (IF sinceExpiry >= 0 THEN sinceExpiry + 1 ELSE lastGap)
            ELSE /\ sinceExpiry' = (IF sinceExpiry >= 0 THEN sinceExpiry + 1 ELSE sinceExpiry)
                 /\ UNCHANGED lastGap
    /\ UNCHANGED <<ALARM0, LED, borrowed, INTERRUPT_COUNTER, pcMain, counter_old,
                   interrupt_count, pcIrq, counter, primask, savedPrimask, nvicEnabled,
                   halted, inte, countdownUs, ledLevel,
                   observe, timed, firings, toggles, acks, schedules, reports, firstRead,
                   failed, rearmLatency>>

----------------------------------------------------------------------------
(* Specifications *)

Next == MainStep \/ IrqEntry \/ IrqBody \/ Tick

\* The program observed from reset, for up to MaxFirings handler executions.
Spec == Init /\ [][Next]_vars

\* The program running forever: the timer keeps counting, a deliverable
\* interrupt is taken, and the core keeps executing whichever context it is in.
Fairness ==
    /\ WF_vars(Tick)
    /\ SF_vars(IrqEntry)
    /\ WF_vars(IrqBody)
    /\ WF_vars(MainStep)
LiveSpec == LiveInit /\ [][Next]_vars /\ Fairness

\* The handler exercised as a transition of its own: a test harness may call
\* it in any state of main(), also before the slots are populated.
HarnessInvoke ==
    /\ MainRuns
    /\ observe => firings < MaxFirings
    /\ pcIrq' = "borrow"
    /\ irqTicks' = 0
    /\ UNCHANGED <<ALARM0, LED, borrowed, INTERRUPT_COUNTER, pcMain, counter_old,
                   interrupt_count, counter, primask, savedPrimask, nvicEnabled, halted,
                   hwVars, histVars>>

HarnessNext == Next \/ HarnessInvoke
HarnessSpec == Init /\ [][HarnessNext]_vars

TimedSpec == TimedInit /\ [][Next]_vars

TypeOK ==
    /\ ALARM0 \in {"None", "Some"}
    /\ LED \in {"None", "Some"}
    /\ borrowed \subseteq {"ALARM0", "LED"}
    /\ INTERRUPT_COUNTER \in CounterValues
    /\ counter_old \in CounterValues
    /\ interrupt_count \in CounterValues
    /\ counter \in CounterValues
    /\ pcIrq \in {"idle", "borrow", "get", "check", "clear_interrupt", "schedule",
                  "toggle", "set"}
    /\ irqTicks \in 0 .. MaxHandlerLatency
    /\ remaining \in 0 .. ToTicks(ScheduleArg)
    /\ firings \in 0 .. MaxFirings
    /\ timed \in BOOLEAN
    /\ sinceExpiry \in -1 .. (ToTicks(ScheduleArg) + MaxRearmDelay)
    /\ rearmLatency \in -1 .. MaxRearmDelay
    /\ lastGap \in 0 .. (ToTicks(ScheduleArg) + MaxRearmDelay)

----------------------------------------------------------------------------
(* Properties *)

InCriticalSection ==
    pcMain \in {"enable_interrupt", "clear_interrupt", "schedule", "put_alarm0",
                "put_led", "free_init_exit", "read0_get", "read0_exit",
                "read_get", "read_exit"}

\* The value the observation loop holds as its baseline according to its reports.
ReportedBaseline == IF reports = <<>> THEN firstRead ELSE reports[Len(reports)][2]

\* C1: with no handler execution in progress, the LED level is its initial
\* level XOR (completed handler executions mod 2) and exactly one toggle has
\* happened per completed execution; the only toggle not yet matched by a
\* completed execution is the one of the execution in progress, after line 212.
C1_ParityExactToggling ==
    /\ pcIrq = "idle" =>
          /\ ledLevel = (LedInitialLevel # (firings % 2 = 1))
          /\ toggles = firings
    /\ toggles = firings + (IF pcIrq = "set" THEN 1 ELSE 0)
C1_Witness ==
    /\ pcIrq = "idle"
    /\ firings = 3
    /\ ledLevel # LedInitialLevel
    /\ pcMain \in {"read_get", "compare", "report"}

\* C2: after K completed handler executions INTERRUPT_COUNTER is K mod 2^W,
\* in every state and for K beyond the overflow boundary as well.
C2_CounterCountsFirings == INTERRUPT_COUNTER = firings % CounterModulus
C2_Witness ==
    /\ firings > CounterModulus
    /\ INTERRUPT_COUNTER = firings - CounterModulus
    /\ pcIrq = "idle"

\* C3: every return of the handler leaves the alarm armed with the interval
\* the initialization scheduled, and unless a fatal error halts the core the
\* alarm expires again and again.
C3_RearmedOnEveryFiring ==
    /\ [][(pcIrq = "set" /\ pcIrq' = "idle")
            => (armed' /\ countdownUs' = ToMicros(ScheduleArg))]_vars
    /\ [][countdownUs # 0 => countdownUs' = countdownUs]_vars
    /\ (<>halted) \/ ([]<>intr)
C3_Witness ==
    /\ pcIrq = "idle"
    /\ armed
    /\ INTERRUPT_COUNTER = 2
    /\ ~halted

\* C4: while main() is inside a free(..) critical section no handler
\* execution is in progress: none begins there and none is part-way through.
C4_MutualExclusion == InCriticalSection => pcIrq = "idle"
C4_Witness ==
    /\ pcMain = "read_get"
    /\ intr /\ inte /\ nvicEnabled
    /\ pcIrq = "idle"
    /\ firings >= 1

\* C5: TIMER_IRQ_0 is unmasked only with both slots populated, and whenever
\* the handler runs both ALARM0 and LED hold Some(..).
C5_SlotsPopulatedWhenHandlerRuns ==
    (nvicEnabled \/ pcIrq # "idle") => (ALARM0 = "Some" /\ LED = "Some")
C5_Witness ==
    /\ pcIrq = "check"
    /\ pcMain = "read0_enter"
    /\ firings = 0

\* C6: a handler execution that finds both slots empty performs no
\* acknowledge, no rearm and no toggle and does not halt the core; it goes
\* from the check straight to the counter update and returns.
C6_AbsentSlotsNoFault ==
    [][(IrqRuns /\ ALARM0 = "None" /\ LED = "None")
         => /\ ~halted'
            /\ acks' = acks
            /\ schedules' = schedules
            /\ toggles' = toggles
            /\ ledLevel' = ledLevel
            /\ pcIrq' \in {"borrow", "get", "check", "set", "idle"}]_vars
C6_Witness ==
    /\ ALARM0 = "None" /\ LED = "None"
    /\ pcIrq = "idle"
    /\ firings = 1
    /\ INTERRUPT_COUNTER = 1
    /\ ~halted

\* C7: a report is emitted exactly when the value read differs from the
\* baseline, carries (baseline, value read), and the baseline then becomes the
\* value read: reports have old # new, chain old = previous new, start at the
\* initial read, and at the head of the loop the baseline is the last value
\* reported and the last value read.
C7_ReportOnChange ==
    LET n == Len(reports) IN
    /\ \A i \in 1 .. n : reports[i][1] # reports[i][2]
    /\ \A i \in 2 .. n : reports[i][1] = reports[i - 1][2]
    /\ n > 0 => reports[1][1] = firstRead
    /\ pcMain = "report" => counter_old # interrupt_count
    /\ pcMain = "assign" => (n > 0 /\ reports[n] = <<counter_old, interrupt_count>>)
    /\ pcMain \in {"read_enter", "read_get"} =>
          /\ counter_old = ReportedBaseline
          /\ interrupt_count # counter_old => (n = 0 /\ interrupt_count = 0)
C7_Witness ==
    /\ Len(reports) >= 2
    /\ pcMain = "read_enter"

\* The five reports of the end-to-end scenario, at the counter's width.
ScenarioReports == [i \in 1 .. 5 |-> <<(i - 1) % CounterModulus, i % CounterModulus>>]

\* The observation loop has read the counter since the last firing and is idle.
CaughtUp ==
    /\ pcIrq = "idle"
    /\ pcMain = "read_enter"
    /\ interrupt_count = INTERRUPT_COUNTER
    /\ counter_old = INTERRUPT_COUNTER

\* C8 as claimed: the i-th report is the i-th pair of (0,1), (1,2), (2,3),
\* (3,4), (4,5), and once five firings have been serviced and the loop has
\* caught up there are exactly five reports.
C8_OneReportPerFiring ==
    /\ \A i \in 1 .. Len(reports) : i <= 5 /\ reports[i] = ScenarioReports[i]
    /\ (firings = 5 /\ CaughtUp) => Len(reports) = 5

\* C8 as amended: for up to five firings the loop emits at most five reports;
\* before the counter has wrapped every report has old < new <= firings; and
\* a loop that is back at its head with the current counter value as the value
\* last read has that value as its baseline and as the last value reported.
C8_ReportsCoverFirings ==
    /\ firings <= 5 => Len(reports) <= 5
    /\ firings < CounterModulus =>
          \A i \in 1 .. Len(reports) :
             reports[i][1] < reports[i][2] /\ reports[i][2] <= firings
    /\ (pcIrq = "idle" /\ pcMain = "read_enter" /\ interrupt_count = INTERRUPT_COUNTER
          /\ (reports # <<>> \/ interrupt_count # 0))
         => (counter_old = INTERRUPT_COUNTER /\ ReportedBaseline = INTERRUPT_COUNTER)
C8_Witness ==
    /\ firings = 5
    /\ CaughtUp
    /\ Len(reports) = 2
    /\ reports[1] = <<0, 2>>

\* C9 as claimed: the alarm is armed for ALARM0_INTERVAL_MS milliseconds.
C9_IntervalIsMilliseconds ==
    armed => countdownUs = ToMicros(millis(ALARM0_INTERVAL_MS))

\* C10: a failure of schedule() or toggle() halts the core at once, and a
\* halted core stays halted: no toggle, no counter update, no report and no
\* schedule() call ever follows.
C10_FatalErrorsHalt ==
    /\ [](failed => halted)
    /\ [][halted => /\ halted'
                    /\ ledLevel' = ledLevel
                    /\ toggles' = toggles
                    /\ INTERRUPT_COUNTER' = INTERRUPT_COUNTER
                    /\ firings' = firings
                    /\ reports' = reports
                    /\ schedules' = schedules
                    /\ pcMain' = pcMain
                    /\ pcIrq' = pcIrq]_vars
C10_Witness ==
    /\ halted
    /\ failed
    /\ pcIrq = "schedule"
    /\ firings >= 1
    /\ intr = FALSE

\* TIMER_IRQ_0 is pending and unmasked and no handler execution is in progress.
FiringPending == intr /\ inte /\ nvicEnabled /\ pcIrq = "idle"

\* C11: outside the counter-read critical section the loop runs with
\* interrupts enabled (the comparison, the report and the baseline update are
\* outside any critical section), and a firing that is pending after the
\* unmask is eventually taken by the handler and acknowledged.
C11_PendingFiringServiced ==
    /\ [](pcMain \in {"read_enter", "compare", "report", "assign"} => ~primask)
    /\ FiringPending ~> (pcIrq = "clear_interrupt")
C11_Witness ==
    /\ FiringPending
    /\ pcMain = "read_get"
    /\ primask
    /\ INTERRUPT_COUNTER = 1

\* C12: within a handler execution the steps come in the order acknowledge,
\* rearm, toggle, counter update: at the rearm the firing has been
\* acknowledged and the alarm's interrupt is clear, at the toggle the alarm has
\* been rearmed, and the counter is written only after the toggle.
C12_HandlerStepOrder ==
    /\ pcIrq \in {"borrow", "get", "check", "clear_interrupt"} =>
          (acks = firings + 1 /\ schedules = firings + 1 /\ toggles = firings)
    /\ (pcIrq = "schedule" /\ ~halted) =>
          (acks = firings + 2 /\ ~intr /\ schedules = firings + 1 /\ toggles = firings)
    /\ pcIrq = "toggle" =>
          (acks = firings + 2 /\ schedules = firings + 2 /\ toggles = firings)
    /\ pcIrq = "set" =>
          (acks = firings + 2 /\ schedules = firings + 2 /\ toggles = firings + 1
             /\ INTERRUPT_COUNTER = counter)
C12_Witness ==
    /\ pcIrq = "set"
    /\ firings = 2
    /\ toggles = 3
    /\ armed

\* C13 as claimed: a handler execution that finds exactly one slot empty still
\* performs the steps of the capability that is present: with the alarm
\* present it goes on from the check to the acknowledge (and the rearm), with
\* only the LED present it goes on to the toggle.
C13_PerCapabilitySkip ==
    [][(pcIrq = "check" /\ pcIrq' # "check")
         => /\ (ALARM0 = "Some" /\ LED = "None") => pcIrq' = "clear_interrupt"
            /\ (ALARM0 = "None" /\ LED = "Some") => pcIrq' = "toggle"]_vars

\* main() has left its initialization (lines 134-148).
MainInitialized ==
    pcMain \notin {"free_init", "enable_interrupt", "clear_interrupt", "schedule",
                   "put_alarm0", "put_led", "free_init_exit", "program_start", "unmask"}

\* C14: INTERRUPT_COUNTER is written only by the handler's line 215; after the
\* initialization no step of main() changes INTERRUPT_COUNTER, the LED level
\* or the alarm; the baseline counter_old is written only by main() (lines
\* 153 and 171), never while a handler execution is in progress.
C14_AsymmetricSharing ==
    [][/\ INTERRUPT_COUNTER' # INTERRUPT_COUNTER => (pcIrq = "set" /\ pcMain' = pcMain)
       /\ (pcMain' # pcMain /\ MainInitialized) =>
             /\ INTERRUPT_COUNTER' = INTERRUPT_COUNTER
             /\ ledLevel' = ledLevel
             /\ <<inte, intr, armed, remaining, countdownUs>>'
                   = <<inte, intr, armed, remaining, countdownUs>>
       /\ pcMain' # pcMain => ledLevel' = ledLevel
       /\ counter_old' # counter_old =>
             (pcIrq = "idle" /\ pcIrq' = "idle" /\ pcMain \in {"read0_get", "assign"})
      ]_vars
C14_Witness ==
    /\ pcMain = "read_enter"
    /\ counter_old = 2
    /\ INTERRUPT_COUNTER = 3
    /\ Len(reports) >= 1

\* C15: each slot is empty at the start, is written only by its replace call
\* inside the initialization critical section, which fills it, and once
\* Some(..) stays Some(..) in every later step.
C15_SlotLifecycle ==
    /\ [](pcMain = "free_init" => (ALARM0 = "None" /\ LED = "None"))
    /\ [][/\ ALARM0' # ALARM0 =>
               (ALARM0 = "None" /\ ALARM0' = "Some" /\ pcMain = "put_alarm0" /\ primask)
          /\ LED' # LED =>
               (LED = "None" /\ LED' = "Some" /\ pcMain = "put_led" /\ primask)]_vars
C15_Witness ==
    /\ ALARM0 = "Some"
    /\ LED = "Some"
    /\ firings = 3
    /\ pcIrq = "idle"

\* C16: a baseline of 2^W - 1 and a value read of 0 are compared as unequal
\* like any other pair: the loop goes on to the report, the report is
\* (2^W - 1, 0), and the baseline becomes 0.  The comparison sends the loop to
\* the report exactly when the two values differ, whichever is larger.
C16_WrapReportedAsChange ==
    /\ [][(pcMain = "compare" /\ pcMain' # pcMain)
            => (pcMain' = "report" <=> counter_old # interrupt_count)]_vars
    /\ [][(pcMain = "report" /\ pcMain' # pcMain
             /\ counter_old = CounterModulus - 1 /\ interrupt_count = 0)
            => reports' = Append(reports, <<CounterModulus - 1, 0>>)]_vars
    /\ [][(pcMain = "assign" /\ pcMain' # pcMain) => counter_old' = interrupt_count]_vars
C16_Witness ==
    /\ pcMain = "read_enter"
    /\ counter_old = 0
    /\ reports # <<>>
    /\ reports[Len(reports)] = <<CounterModulus - 1, 0>>

\* C18: PRIMASK is set exactly while main() is inside a free(..) block, each
\* block was entered with interrupts enabled and leaves them enabled; after
\* the initialization block TIMER_IRQ_0 stays masked in the NVIC, hence
\* undeliverable, until the unmask at line 147.
C18_CriticalSectionRestores ==
    /\ InCriticalSection <=> primask
    /\ InCriticalSection => ~savedPrimask
    /\ pcMain \in {"program_start", "unmask"} =>
          (~nvicEnabled /\ ~IrqDeliverable /\ pcIrq = "idle")
C18_Witness ==
    /\ pcMain = "unmask"
    /\ intr /\ inte
    /\ ~primask
    /\ ~nvicEnabled

\* C19: when the handler is about to execute its two borrow_mut calls no
\* RefMut of ALARM0 or LED is alive, so it never panics there; borrows are
\* alive only inside the handler, and the handler runs only after main() has
\* left the initialization, the one place where main() touches the slots.
C19_NoConflictingBorrow ==
    /\ pcIrq = "borrow" => (borrowed = {} /\ ~halted)
    /\ borrowed # {} => pcIrq \notin {"idle", "borrow"}
    /\ pcIrq # "idle" => MainInitialized
C19_Witness ==
    /\ pcIrq = "get"
    /\ borrowed = {"ALARM0", "LED"}
    /\ firings = 2
    /\ pcMain = "compare"

\* C20: there are never more reports than completed handler executions; a
\* value read under free(..) is the counter's value at that moment; and before
\* the counter has wrapped neither the baseline, nor the value last read, nor
\* any reported value exceeds the counter.
C20_ReportsNeverAhead ==
    /\ Len(reports) <= firings
    /\ pcMain = "read0_exit" => counter_old = INTERRUPT_COUNTER
    /\ pcMain = "read_exit" => interrupt_count = INTERRUPT_COUNTER
    /\ firings < CounterModulus =>
          /\ counter_old <= INTERRUPT_COUNTER
          /\ interrupt_count <= INTERRUPT_COUNTER
          /\ \A i \in 1 .. Len(reports) : reports[i][2] <= INTERRUPT_COUNTER
C20_Witness ==
    /\ firings = 3
    /\ Len(reports) = 3
    /\ pcMain = "read_enter"
    /\ counter_old = INTERRUPT_COUNTER

\* C17: the handler's schedule() counts the interval from the moment of the
\* call: while an alarm rearmed by the handler is armed, its remaining time is
\* the interval minus the time since that call; so the gap between two
\* consecutive expiries is the interval plus the time from the first expiry to
\* the rearm, never less than the interval.
C17_RearmRelativeToNow ==
    /\ (armed /\ rearmLatency >= 0) =>
          remaining = ToTicks(ScheduleArg) - (sinceExpiry - rearmLatency)
    /\ (lastGap > 0 /\ ~armed) => lastGap = ToTicks(ScheduleArg) + rearmLatency
    /\ lastGap > 0 => lastGap >= ToTicks(ScheduleArg)
C17_Witness ==
    /\ ~armed
    /\ rearmLatency = 2
    /\ lastGap = ToTicks(ScheduleArg) + 2
    /\ firings >= 1
====
